---- MODULE Spec2Model ----
(***************************************************************************)
(* Model of the .py upload application: the validation rules of both       *)
(* variants (server and client), and the server-side upload orchestration  *)
(* (uploadFile with metadata and rollback, and the simple                  *)
(* uploadFileToStorage pipeline behind multer).                            *)
(*                                                                         *)
(* File names are sequences of one-character strings, so that extname,     *)
(* toLowerCase and endsWith are computed and not assumed.                  *)
(***************************************************************************)
EXTENDS Integers, Sequences, FiniteSets, TLC

VARIABLES
    vpc,            \* validation harness: "input" | "validated"
    vName,          \* candidate file name
    vSize,          \* candidate byte size
    vOut,           \* outcome of each validator on (vName, vSize)
    req,            \* per-request state of the server (position, inputs, outcome)
    calls,          \* per-request log of the SDK calls issued, with their results
    storage,        \* bucket 'py-files' (uploadFile): set of blobs
    simpleStorage,  \* bucket 'python-files' (uploadFileToStorage): set of blobs
    files,          \* table 'files': set of rows
    nextUuid,       \* number of UUIDs handed out by crypto.randomUUID so far
    variant,        \* client modelled: "off" | "widget" (FileUploader) | "hook" (useFileUpload)
    wState,         \* FileUploader: state
    wProgress,      \* FileUploader: progress
    wError,         \* FileUploader: error (null or a message)
    wUploadedFile,  \* FileUploader: uploadedFile (0 for null, else the transfer that returned it)
    dragCounter,    \* FileUploader: dragCounterRef.current
    gesture,        \* history: the drag gesture in progress, while only drag events occur
    hUploadState,   \* useFileUpload: uploadState { isUploading, progress, error }
    hUploadedFiles, \* useFileUpload: uploadedFiles (transfers that returned, newest first)
    xfers,          \* the XMLHttpRequest transfers started by the client, in order
    completeCalls   \* FileUploader: the arguments of the onUploadComplete calls made, in order

vars == <<vpc, vName, vSize, vOut, req, calls, storage, simpleStorage, files, nextUuid,
          variant, wState, wProgress, wError, wUploadedFile, dragCounter, gesture,
          hUploadState, hUploadedFiles, xfers, completeCalls>>

valVars == <<vpc, vName, vSize, vOut>>
srvVars == <<req, calls, storage, simpleStorage, files, nextUuid>>
cliVars == <<variant, wState, wProgress, wError, wUploadedFile, dragCounter, gesture,
             hUploadState, hUploadedFiles, xfers, completeCalls>>
widgetVars == <<wState, wProgress, wError, wUploadedFile, dragCounter, gesture,
                completeCalls>>
hookVars == <<hUploadState, hUploadedFiles>>

----------------------------------------------------------------------------
(* Bounds *)

\* longest file name enumerated by the validation harness
MaxLen == 4
\* number of upload requests the server receives
MaxReqs == 2
\* deepest nesting of dragenter events over the drop zone
MaxDrag == 4
\* number of transfers a client starts
MaxXfers == 2
\* number of chunks of a transfer's body (event.total of its progress events)
MaxChunks == 2

----------------------------------------------------------------------------
(* Strings *)

Alphabet == {"a", "p", "y", "P", ".", "/"}

RECURSIVE SeqsUpTo(_)
SeqsUpTo(n) ==
    IF n = 0 THEN {<<>>}
    ELSE LET shorter == SeqsUpTo(n - 1)
         IN  shorter \cup {Append(s, c) : s \in {t \in shorter : Len(t) = n - 1}, c \in Alphabet}

Names == SeqsUpTo(MaxLen)

DotPy == <<".", "p", "y">>

\* String.prototype.toLowerCase, one character
lowerChar(c) ==
    IF c = "P" THEN "p" ELSE IF c = "Y" THEN "y" ELSE IF c = "A" THEN "a" ELSE c

\* String.prototype.toLowerCase
toLowerCase(s) == [i \in 1..Len(s) |-> lowerChar(s[i])]

\* String.prototype.endsWith
endsWith(s, suffix) ==
    /\ Len(s) >= Len(suffix)
    /\ SubSeq(s, Len(s) - Len(suffix) + 1, Len(s)) = suffix

\* path.extname (posix): trailing slashes are ignored, the extension is taken
\* from the last path component, from its last dot to its end; it is empty
\* when the component has no dot, when its last dot is its first character,
\* or when the component is "..".
extname(p) ==
    LET nonSlash  == {i \in 1..Len(p) : p[i] # "/"}
        end       == IF nonSlash = {} THEN 0
                     ELSE CHOOSE i \in nonSlash : \A j \in nonSlash : j <= i
        slashes   == {i \in 1..end : p[i] = "/"}
        startPart == IF slashes = {} THEN 1
                     ELSE 1 + CHOOSE i \in slashes : \A j \in slashes : j <= i
        dots      == {i \in startPart..end : p[i] = "."}
        startDot  == IF dots = {} THEN 0
                     ELSE CHOOSE i \in dots : \A j \in dots : j <= i
    IN  IF end = 0 \/ startDot = 0 THEN <<>>
        ELSE IF startDot = startPart THEN <<>>
        ELSE IF p[startPart] = "." /\ startDot = end /\ startDot = startPart + 1 THEN <<>>
        ELSE SubSeq(p, startDot, end)

----------------------------------------------------------------------------
(* Validation rules. A validator yields "ok" or the rule that rejected:    *)
(* "extension", "size", "empty".                                           *)

MAX_FILE_SIZE == 5 * 1024 * 1024

ALLOWED_EXTENSION == DotPy

validateFile_sizeInclusive(originalName, sizeBytes) ==
    IF toLowerCase(extname(originalName)) # ALLOWED_EXTENSION THEN "extension"
    ELSE IF sizeBytes >= MAX_FILE_SIZE THEN "size"
    ELSE IF sizeBytes = 0 THEN "empty"
    ELSE "ok"

validateFile_emptyFirst(originalName, sizeBytes) ==
    IF sizeBytes = 0 THEN "empty"
    ELSE IF toLowerCase(extname(originalName)) # ALLOWED_EXTENSION THEN "extension"
    ELSE IF sizeBytes > MAX_FILE_SIZE THEN "size"
    ELSE "ok"

validateFile_acceptAll(originalName, sizeBytes) == "ok"

\* server, authenticated variant
validateFile(originalName, sizeBytes) ==
    IF toLowerCase(extname(originalName)) # ALLOWED_EXTENSION THEN "extension"
    ELSE IF sizeBytes > MAX_FILE_SIZE THEN "size"
    ELSE IF sizeBytes = 0 THEN "empty"
    ELSE "ok"

\* server, simple variant: multer's fileFilter
validatePythonFile(originalname) ==
    IF toLowerCase(extname(originalname)) # DotPy THEN "extension" ELSE "ok"

\* server, simple variant: multer({ limits: { fileSize }, fileFilter }):
\* the filter runs on the part's header, the limit while the body is read
multerUpload(originalname, size) ==
    IF validatePythonFile(originalname) # "ok" THEN "extension"
    ELSE IF size > MAX_FILE_SIZE THEN "size"
    ELSE "ok"

\* client, hook variant (useFileUpload)
validateClientSide(name, size) ==
    IF ~endsWith(name, DotPy) THEN "extension"
    ELSE IF size > MAX_FILE_SIZE THEN "size"
    ELSE IF size = 0 THEN "empty"
    ELSE "ok"

validatePythonFileClient_acceptAll(name, size) == "ok"

\* client, standalone variant (utils/uploadFile)
validatePythonFileClient(name, size) ==
    IF ~endsWith(toLowerCase(name), DotPy) THEN "extension"
    ELSE IF size > MAX_FILE_SIZE THEN "size"
    ELSE "ok"

----------------------------------------------------------------------------
(* Client state as constructed (useState / useRef initial values).         *)

null == "null"

NoGesture == [pure |-> FALSE, peak |-> 0, toDragging |-> 0, toIdle |-> 0]

ClientConstructed ==
    /\ wState = "idle"
    /\ wProgress = 0
    /\ wError = null
    /\ wUploadedFile = 0
    /\ dragCounter = 0
    /\ gesture = NoGesture
    /\ hUploadState = [isUploading |-> FALSE, progress |-> 0, error |-> null]
    /\ hUploadedFiles = <<>>
    /\ xfers = <<>>
    /\ completeCalls = <<>>

\* no client takes part
ClientOff ==
    /\ variant = "off"
    /\ ClientConstructed

----------------------------------------------------------------------------
(* Validation harness: one candidate, every validator applied to it.       *)

Sizes == {0, 1, 42, MAX_FILE_SIZE - 1, MAX_FILE_SIZE, MAX_FILE_SIZE + 1, 2 * MAX_FILE_SIZE}

NoOut == [server |-> "none", multer |-> "none", hook |-> "none", standalone |-> "none"]

RunValidators ==
    /\ vpc = "input"
    /\ vpc' = "validated"
    /\ vOut' = [server     |-> validateFile(vName, vSize),
                multer     |-> multerUpload(vName, vSize),
                hook       |-> validateClientSide(vName, vSize),
                standalone |-> validatePythonFileClient(vName, vSize)]
    /\ UNCHANGED <<vName, vSize>>
    /\ UNCHANGED <<srvVars, cliVars>>

InitValidate ==
    /\ vpc = "input"
    /\ vName \in Names
    /\ vSize \in Sizes
    /\ vOut = NoOut
    /\ req = <<>>
    /\ calls = <<>>
    /\ storage = {}
    /\ simpleStorage = {}
    /\ files = {}
    /\ nextUuid = 0
    /\ ClientOff

NextValidate == RunValidators

SpecValidate == InitValidate /\ [][NextValidate]_vars

----------------------------------------------------------------------------
(* Server: requests, storage buckets, metadata table.                      *)

Reqs == 1..MaxReqs

Users == {"u1", "u2"}

\* what the requests of the server model upload
ReqNames == {<<"a", ".", "p", "y">>, <<"a", ".", "P", "y">>, <<"a", ".", "a">>}
ReqSizes == {0, 42, MAX_FILE_SIZE + 1}

\* a response body: fmt is "none" (nothing sent), "json_error" ({ error: msg }),
\* "json" (a success payload) or "html" (Express's default error page);
\* msg is the message as a sequence of its parts
NoBody == [fmt |-> "none", msg |-> <<>>]

\* the JSON object of a success response, as a record of its fields; no
\* fields when no success response was sent
NoPayload == [none \in {} |-> 0]

\* the value the database assigns to uploaded_at of an inserted row
DbNow == "<now()>"

\* the message text of an error object returned by the storage or database SDK
SdkText == "<sdk error text>"

NoReq ==
    [route |-> "none", pc |-> "idle", header |-> "none", next |-> FALSE,
     nexts |-> 0, authSent |-> 0, sent |-> 0,
     userId |-> "", hasFile |-> FALSE,
     name |-> <<>>, size |-> 0, uuid |-> "", path |-> <<>>,
     outcome |-> "none", rule |-> "none", status |-> 0, body |-> NoBody,
     payload |-> NoPayload]

\* the n-th value crypto.randomUUID returns; values never repeat
randomUUID(n) == ToString(n)

storagePathOf_noUuid(userId, uniqueId, originalName) ==
    <<userId, "/">> \o originalName

\* `${userId}/${uniqueId}${path.extname(originalName)}`
storagePathOf(userId, uniqueId, originalName) ==
    <<userId, "/", uniqueId>> \o extname(originalName)

uniqueNameOf_extensionOnly(userId, uniqueId, originalname) ==
    <<userId, "/", uniqueId>> \o extname(originalname)

\* `${userId}/${crypto.randomUUID()}_${file.originalname}`
uniqueNameOf(userId, uniqueId, originalname) ==
    <<userId, "/", uniqueId, "_">> \o originalname

\* The storage and database SDK calls are atomic at the point where they
\* return: a call that reports an error has had no effect on the bucket or the
\* table. upload and insert report failure through the error field that
\* uploadFile inspects (a rejecting upload ends uploadFile before the insert
\* just as a reported error does); remove's result is discarded, so its
\* failure is modelled both as a reported error and as a rejection.

\* storage.from(bucket).upload(key, body, { upsert }): the call reports an
\* error when the backend faults, and when the key exists and upsert is off
uploadFails(bucket, key, upsert, fault) ==
    fault \/ (~upsert /\ \E b \in bucket : b.key = key)

\* the bucket after a successful upload of blob
bucketAfterUpload(bucket, blob) ==
    {b \in bucket : b.key # blob.key} \cup {blob}

\* the bucket after a successful remove([key])
bucketAfterRemove(bucket, key) == {b \in bucket : b.key # key}

Call(op, key, upsert) == [op |-> op, key |-> key, upsert |-> upsert, result |-> "pending"]

\* the last call of request r has returned with result res
Returned(r, res) == [calls[r] EXCEPT ![Len(calls[r])].result = res]

stopOnStorageError_never(storageError) == FALSE

\* if (storageError) throw new Error('Storage upload failed: ...')
stopOnStorageError(storageError) == storageError

needsRollback_always(dbError) == TRUE

\* if (dbError) { await ...remove([storagePath]); throw ... }
needsRollback(dbError) == dbError

\* (sizeBytes / (1024 * 1024)).toFixed(2): the size in MiB rounded to
\* hundredths, as decimal text
toFixed2MB(sizeBytes) ==
    LET hundredths == (sizeBytes * 200 + 1024 * 1024) \div (2 * 1024 * 1024)
        frac       == hundredths % 100
    IN  ToString(hundredths \div 100) \o "."
            \o (IF frac < 10 THEN "0" ELSE "") \o ToString(frac)

\* the message of the FileValidationError thrown for a rule
validationMessage(rule, originalName, size) ==
    IF rule = "extension"
    THEN <<"Only .py files are allowed", ". Received: ">>
             \o (IF extname(originalName) = <<>> THEN <<"no extension">>
                 ELSE toLowerCase(extname(originalName)))
    ELSE IF rule = "size" THEN <<"File size exceeds 5 MB limit", ". Received: ", toFixed2MB(size), " MB">>
    ELSE <<"File is empty">>

\* handleFileUpload (authenticated variant): how the outcome of uploadFile is
\* answered: 201 with the mapped record, 400 with the validation message,
\* 500 'Internal server error' for anything else
handleFileUploadResponse(outcome, rule, originalName, size) ==
    IF outcome = "ok" THEN [status |-> 201, body |-> [fmt |-> "json", msg |-> <<>>]]
    ELSE IF outcome = "FileValidationError"
    THEN [status |-> 400,
          body |-> [fmt |-> "json_error", msg |-> validationMessage(rule, originalName, size)]]
    ELSE [status |-> 500, body |-> [fmt |-> "json_error", msg |-> <<"Internal server error">>]]

\* the row uploadFile inserts for request rq, as the table returns it
insertedRow(rq) ==
    [id |-> rq.uuid, user_id |-> rq.userId, file_name |-> rq.name,
     storage_path |-> rq.path, size_bytes |-> rq.size, uploaded_at |-> DbNow]

\* the FileRecord uploadFile returns for the inserted row data
fileRecordOf(data) ==
    [id |-> data.id, userId |-> data.user_id, fileName |-> data.file_name,
     storagePath |-> data.storage_path, sizeBytes |-> data.size_bytes,
     uploadedAt |-> data.uploaded_at]

fileUploadResponseOf_wholeRecord(record) == record

\* the FileUploadResponse handleFileUpload builds from the record
fileUploadResponseOf(record) ==
    [id |-> record.id, fileName |-> record.fileName,
     sizeBytes |-> record.sizeBytes, uploadedAt |-> record.uploadedAt]

\* request rq has ended with outcome; a request that came through
\* POST /api/files is answered by handleFileUpload
settled(rq, outcome) ==
    LET d    == [rq EXCEPT !.pc = "done", !.outcome = outcome]
        resp == handleFileUploadResponse(outcome, rq.rule, rq.name, rq.size)
    IN  IF rq.route = "api"
        THEN [d EXCEPT !.status = resp.status, !.body = resp.body, !.sent = rq.sent + 1,
                       !.payload = IF outcome = "ok"
                                   THEN fileUploadResponseOf(fileRecordOf(insertedRow(rq)))
                                   ELSE NoPayload]
        ELSE d

\* the body of uploadFile up to its first await, for the request record called
uploadFileFrom(r, called, userId, originalName, size) ==
    LET rule == validateFile(originalName, size)
        uuid == randomUUID(nextUuid + 1)
        path == storagePathOf(userId, uuid, originalName)
    IN  IF rule # "ok"
        THEN /\ req' = [req EXCEPT ![r] =
                            settled([called EXCEPT !.rule = rule], "FileValidationError")]
             /\ UNCHANGED <<calls, nextUuid>>
        ELSE /\ req' = [req EXCEPT ![r] = [called EXCEPT !.pc = "awaitUpload",
                                              !.uuid = uuid, !.path = path]]
             /\ calls' = [calls EXCEPT ![r] = <<Call("upload", path, FALSE)>>]
             /\ nextUuid' = nextUuid + 1

\* what Express answers when an error reaches no error-handling middleware:
\* its built-in handler sends status 500 and an HTML page, never { error }
expressDefaultError ==
    [status |-> 500, body |-> [fmt |-> "html", msg |-> <<"Internal Server Error">>]]

Headers == {"none", "basic", "bearer_invalid", "bearer_expired", "bearer_valid"}

\* jwt.verify throws for a token that is malformed, wrongly signed or expired
jwtVerifyThrows(header) == header \in {"bearer_invalid", "bearer_expired"}

authenticate_noVerify(header) ==
    IF header \in {"none", "basic"}
    THEN [nexts |-> 0, sent |-> 1, user |-> FALSE, status |-> 401,
          body |-> [fmt |-> "json_error", msg |-> <<"Missing or invalid authorization header">>]]
    ELSE [nexts |-> 1, sent |-> 0, user |-> TRUE, status |-> 0, body |-> NoBody]

authenticate_noReturn(header) ==
    IF header = "none"
    THEN [nexts |-> 0, sent |-> 1, user |-> FALSE, status |-> 401,
          body |-> [fmt |-> "json_error", msg |-> <<"Missing or invalid authorization header">>]]
    ELSE IF header = "basic" \/ jwtVerifyThrows(header)
    THEN [nexts |-> 0, sent |-> IF header = "basic" THEN 2 ELSE 1, user |-> FALSE,
          status |-> 401,
          body |-> [fmt |-> "json_error", msg |-> <<"Invalid or expired token">>]]
    ELSE [nexts |-> 1, sent |-> 0, user |-> TRUE, status |-> 0, body |-> NoBody]

\* authenticate: 401 without a Bearer header, 401 when the token does not
\* verify, otherwise the user is attached and the chain goes on. nexts is
\* the number of next() calls, sent the number of responses sent, user
\* whether req.user was set.
authenticate(header) ==
    IF header \in {"none", "basic"}
    THEN [nexts |-> 0, sent |-> 1, user |-> FALSE, status |-> 401,
          body |-> [fmt |-> "json_error", msg |-> <<"Missing or invalid authorization header">>]]
    ELSE IF jwtVerifyThrows(header)
    THEN [nexts |-> 0, sent |-> 1, user |-> FALSE, status |-> 401,
          body |-> [fmt |-> "json_error", msg |-> <<"Invalid or expired token">>]]
    ELSE [nexts |-> 1, sent |-> 0, user |-> TRUE, status |-> 0, body |-> NoBody]

\* the error-handling middleware of the authenticated application (its
\* index.ts is not among the sources; taken from the interface description):
\* an upload over the transport limit is 413, any other error 500, both as
\* { error: <message> }
appErrorHandler(err) ==
    IF err = "LIMIT_FILE_SIZE"
    THEN [status |-> 413,
          body |-> [fmt |-> "json_error", msg |-> <<"File exceeds the 5 MiB limit">>]]
    ELSE [status |-> 500, body |-> [fmt |-> "json_error", msg |-> <<"Internal server error">>]]

\* upload.single('file') of the authenticated route: memory storage with a
\* 5 MiB limit and no file filter
multerSingle(hasFile, size) ==
    IF hasFile /\ size > 5 * 1024 * 1024 THEN "LIMIT_FILE_SIZE" ELSE "ok"

\* POST /api/files up to its first await: authenticate, upload.single,
\* handleFileUpload, uploadFile. tokenUser is the user a valid token names.
apiUpload(r, header, tokenUser, hasFile, originalName, size) ==
    /\ req[r].pc = "idle"
    /\ LET auth    == authenticate(header)
           arrived == [NoReq EXCEPT !.route = "api", !.header = header,
                                    !.next = auth.nexts > 0, !.nexts = auth.nexts,
                                    !.authSent = auth.sent, !.sent = auth.sent,
                                    !.status = auth.status, !.body = auth.body]
           user    == IF auth.user THEN tokenUser ELSE ""
           parsed  == IF hasFile
                      THEN [arrived EXCEPT !.userId = user, !.hasFile = TRUE,
                                           !.name = originalName, !.size = size]
                      ELSE [arrived EXCEPT !.userId = user]
           answered(rq, outcome, resp) ==
               /\ req' = [req EXCEPT ![r] = [rq EXCEPT !.pc = "done", !.outcome = outcome,
                                                       !.status = resp.status,
                                                       !.body = resp.body,
                                                       !.sent = rq.sent + 1]]
               /\ UNCHANGED <<calls, nextUuid>>
       IN  IF auth.nexts = 0
           THEN /\ req' = [req EXCEPT ![r] = [arrived EXCEPT !.pc = "done",
                                                             !.outcome = "Unauthorized"]]
                /\ UNCHANGED <<calls, nextUuid>>
           ELSE IF multerSingle(hasFile, size) # "ok"
           THEN answered(parsed, "LimitFileSize",
                         appErrorHandler(multerSingle(hasFile, size)))
           ELSE IF ~auth.user
           THEN answered(parsed, "Unauthorized",
                         [status |-> 401,
                          body |-> [fmt |-> "json_error", msg |-> <<"User not authenticated">>]])
           ELSE IF ~hasFile
           THEN answered(parsed, "NoFile",
                         [status |-> 400,
                          body |-> [fmt |-> "json_error", msg |-> <<"No file provided">>]])
           ELSE uploadFileFrom(r, parsed, tokenUser, originalName, size)
    /\ UNCHANGED <<storage, simpleStorage, files>>
    /\ UNCHANGED <<valVars, cliVars>>

\* uploadFile up to its first await: validation, id, key, upload issued
uploadFile(r, userId, originalName, size) ==
    /\ req[r].pc = "idle"
    /\ uploadFileFrom(r, [NoReq EXCEPT !.route = "rich", !.userId = userId,
                                       !.hasFile = TRUE, !.name = originalName,
                                       !.size = size],
                      userId, originalName, size)
    /\ UNCHANGED <<storage, simpleStorage, files>>
    /\ UNCHANGED <<valVars, cliVars>>

\* the storage upload returns; on success the metadata insert is issued
uploadReturns(r, fault) ==
    /\ req[r].pc = "awaitUpload"
    /\ LET key          == req[r].path
           storageError == uploadFails(storage, key, calls[r][1].upsert, fault)
           blob         == [key |-> key, by |-> r, name |-> req[r].name, size |-> req[r].size]
           returned     == Returned(r, IF storageError THEN "error" ELSE "ok")
       IN  /\ storage' = IF storageError THEN storage ELSE bucketAfterUpload(storage, blob)
           /\ IF stopOnStorageError(storageError)
              THEN /\ req' = [req EXCEPT ![r] = settled(req[r], "StorageUploadFailed")]
                   /\ calls' = [calls EXCEPT ![r] = returned]
              ELSE /\ req' = [req EXCEPT ![r].pc = "awaitInsert"]
                   /\ calls' = [calls EXCEPT ![r] = Append(returned, Call("insert", key, FALSE))]
    /\ UNCHANGED <<simpleStorage, files, nextUuid>>
    /\ UNCHANGED <<valVars, cliVars>>

\* the metadata insert returns; on failure the compensating remove is issued
insertReturns(r, dbError) ==
    /\ req[r].pc = "awaitInsert"
    /\ LET row      == insertedRow(req[r])
           returned == Returned(r, IF dbError THEN "error" ELSE "ok")
       IN  /\ files' = IF dbError THEN files ELSE files \cup {row}
           /\ IF needsRollback(dbError)
              THEN /\ req' = [req EXCEPT ![r].pc = "awaitRemove"]
                   /\ calls' = [calls EXCEPT ![r] = Append(returned, Call("remove", req[r].path, FALSE))]
              ELSE /\ req' = [req EXCEPT ![r] = settled(req[r], "ok")]
                   /\ calls' = [calls EXCEPT ![r] = returned]
    /\ UNCHANGED <<storage, simpleStorage, nextUuid>>
    /\ UNCHANGED <<valVars, cliVars>>

\* the compensating remove returns: removed, error reported, or rejected.
\* Its result is not inspected; a rejection propagates out of the await.
removeReturns(r, res) ==
    /\ req[r].pc = "awaitRemove"
    /\ storage' = IF res = "ok" THEN bucketAfterRemove(storage, req[r].path) ELSE storage
    /\ calls' = [calls EXCEPT ![r] = Returned(r, res)]
    /\ req' = [req EXCEPT ![r] = settled(req[r], IF res = "throw" THEN "RemoveRejected"
                                                  ELSE "DatabaseInsertFailed")]
    /\ UNCHANGED <<simpleStorage, files, nextUuid>>
    /\ UNCHANGED <<valVars, cliVars>>

\* POST /files/upload: multer (filter, size limit), then handleFileUpload
\* up to the await inside uploadFileToStorage
multerErrorHandler_passOn(err) == expressDefaultError

\* multerErrorHandler: a size-limit MulterError is 413, the file filter's
\* error is 422, anything else goes on to the next handler
multerErrorHandler(err) ==
    IF err = "LIMIT_FILE_SIZE"
    THEN [status |-> 413,
          body |-> [fmt |-> "json_error", msg |-> <<"File size must be 5 MB or less">>]]
    ELSE IF err = "Only .py files are allowed"
    THEN [status |-> 422,
          body |-> [fmt |-> "json_error", msg |-> <<"Only .py files are allowed">>]]
    ELSE expressDefaultError

simpleHandlerResponse_generic(outcome) ==
    IF outcome = "NoFile"
    THEN [status |-> 400, body |-> [fmt |-> "json_error", msg |-> <<"No file provided">>]]
    ELSE IF outcome = "ok"
    THEN [status |-> 201, body |-> [fmt |-> "json", msg |-> <<>>]]
    ELSE [status |-> 500, body |-> [fmt |-> "json_error", msg |-> <<"Upload failed">>]]

\* handleFileUpload (simple variant): 400 without a file, 201 on success,
\* and on a thrown error 500 with the error's own message, which for a
\* storage failure is 'Storage upload failed: ' followed by the SDK's text
simpleHandlerResponse(outcome) ==
    IF outcome = "NoFile"
    THEN [status |-> 400, body |-> [fmt |-> "json_error", msg |-> <<"No file provided">>]]
    ELSE IF outcome = "ok"
    THEN [status |-> 201, body |-> [fmt |-> "json", msg |-> <<>>]]
    ELSE [status |-> 500,
          body |-> [fmt |-> "json_error", msg |-> <<"Storage upload failed: ", SdkText>>]]

simpleUpload(r, hasFile, originalname, size) ==
    /\ req[r].pc = "idle"
    /\ LET uuid     == randomUUID(nextUuid + 1)
           userId   == "anonymous"
           path     == uniqueNameOf(userId, uuid, originalname)
           received == IF hasFile
                       THEN [NoReq EXCEPT !.route = "simple", !.hasFile = TRUE,
                                          !.name = originalname, !.size = size]
                       ELSE [NoReq EXCEPT !.route = "simple"]
           rule     == multerUpload(originalname, size)
           answered(outcome, resp) ==
               /\ req' = [req EXCEPT ![r] = [received EXCEPT !.pc = "done",
                                               !.outcome = outcome,
                                               !.status = resp.status, !.body = resp.body,
                                               !.sent = 1,
                                               !.rule = IF hasFile THEN rule ELSE "none"]]
               /\ UNCHANGED <<calls, nextUuid>>
       IN  IF ~hasFile THEN answered("NoFile", simpleHandlerResponse("NoFile"))
           ELSE IF rule = "extension"
           THEN answered("FilterRejected", multerErrorHandler("Only .py files are allowed"))
           ELSE IF rule = "size"
           THEN answered("LimitFileSize", multerErrorHandler("LIMIT_FILE_SIZE"))
           ELSE /\ req' = [req EXCEPT ![r] = [received EXCEPT !.pc = "awaitSimpleUpload",
                                                 !.userId = userId, !.uuid = uuid,
                                                 !.path = path]]
                /\ calls' = [calls EXCEPT ![r] = <<Call("upload", path, FALSE)>>]
                /\ nextUuid' = nextUuid + 1
    /\ UNCHANGED <<storage, simpleStorage, files>>
    /\ UNCHANGED <<valVars, cliVars>>

\* the UploadResult uploadFileToStorage returns for request rq
uploadResultOf(rq) ==
    [storagePath |-> rq.path, filename |-> rq.name, sizeBytes |-> rq.size]

\* the 201 body of the simple handleFileUpload
simpleResponseOf(result) ==
    [message |-> "File uploaded successfully",
     file |-> [filename |-> result.filename, storagePath |-> result.storagePath,
               sizeBytes |-> result.sizeBytes]]

\* the storage upload of the simple variant returns; the handler answers
simpleUploadReturns(r, fault) ==
    /\ req[r].pc = "awaitSimpleUpload"
    /\ LET key   == req[r].path
           error == uploadFails(simpleStorage, key, calls[r][1].upsert, fault)
           blob  == [key |-> key, by |-> r, name |-> req[r].name, size |-> req[r].size]
       IN  /\ simpleStorage' = IF error THEN simpleStorage
                               ELSE bucketAfterUpload(simpleStorage, blob)
           /\ calls' = [calls EXCEPT ![r] = Returned(r, IF error THEN "error" ELSE "ok")]
           /\ LET outcome == IF error THEN "StorageUploadFailed" ELSE "ok"
                  resp    == simpleHandlerResponse(outcome)
              IN  req' = [req EXCEPT ![r].pc = "done", ![r].outcome = outcome,
                                     ![r].status = resp.status, ![r].body = resp.body,
                                     ![r].sent = req[r].sent + 1,
                                     ![r].payload =
                                         IF error THEN NoPayload
                                         ELSE simpleResponseOf(uploadResultOf(req[r]))]
    /\ UNCHANGED <<storage, files, nextUuid>>
    /\ UNCHANGED <<valVars, cliVars>>

Init ==
    /\ vpc = "off"
    /\ vName = <<>>
    /\ vSize = 0
    /\ vOut = NoOut
    /\ req = [r \in Reqs |-> NoReq]
    /\ calls = [r \in Reqs |-> <<>>]
    /\ storage = {}
    /\ simpleStorage = {}
    /\ files = {}
    /\ nextUuid = 0
    /\ ClientOff

Next ==
    \/ \E r \in Reqs, u \in Users, n \in ReqNames, s \in ReqSizes : uploadFile(r, u, n, s)
    \/ \E r \in Reqs, fault \in BOOLEAN : uploadReturns(r, fault)
    \/ \E r \in Reqs, dbError \in BOOLEAN : insertReturns(r, dbError)
    \/ \E r \in Reqs, res \in {"ok", "error", "throw"} : removeReturns(r, res)
    \/ \E r \in Reqs, f \in BOOLEAN, n \in ReqNames, s \in ReqSizes : simpleUpload(r, f, n, s)
    \/ \E r \in Reqs, fault \in BOOLEAN : simpleUploadReturns(r, fault)

Spec == Init /\ [][Next]_vars

\* the two HTTP endpoints: POST /api/files and POST /files/upload
NextHttp ==
    \/ \E r \in Reqs, h \in Headers, u \in Users, f \in BOOLEAN,
          n \in ReqNames, s \in ReqSizes : apiUpload(r, h, u, f, n, s)
    \/ \E r \in Reqs, fault \in BOOLEAN : uploadReturns(r, fault)
    \/ \E r \in Reqs, dbError \in BOOLEAN : insertReturns(r, dbError)
    \/ \E r \in Reqs, res \in {"ok", "error", "throw"} : removeReturns(r, res)
    \/ \E r \in Reqs, f \in BOOLEAN, n \in ReqNames, s \in ReqSizes : simpleUpload(r, f, n, s)
    \/ \E r \in Reqs, fault \in BOOLEAN : simpleUploadReturns(r, fault)

SpecHttp == Init /\ [][NextHttp]_vars

----------------------------------------------------------------------------
(* Properties of the validation rules (checked under SpecValidate)         *)

\* C1: validateFile succeeds exactly when the extension, lower-cased, is .py
\* and 0 < sizeBytes <= 5 MiB; 5,242,880 bytes is accepted and 5,242,881
\* bytes is rejected.
C1_ValidateFileAccepts ==
    vpc = "validated" =>
        /\ (vOut.server = "ok") <=>
               (/\ toLowerCase(extname(vName)) = DotPy
                /\ 0 < vSize
                /\ vSize <= 5 * 1024 * 1024)
        /\ (toLowerCase(extname(vName)) = DotPy /\ vSize = 5242880) => vOut.server = "ok"
        /\ vSize = 5242881 => vOut.server # "ok"

\* an upper-case extension at exactly 5 MiB has been accepted
C1_Witness ==
    /\ vpc = "validated"
    /\ vSize = 5242880
    /\ extname(vName) = <<".", "P", "y">>
    /\ vOut.server = "ok"

\* C2: the rules are checked in the order extension, size ceiling, non-empty,
\* and the first failing rule decides the error: a wrong extension gives the
\* extension error whatever the size, a .py file over 5 MiB the size error,
\* an empty .py file the empty-file error.
C2_FirstFailingRuleWins ==
    vpc = "validated" =>
        /\ toLowerCase(extname(vName)) # DotPy => vOut.server = "extension"
        /\ (toLowerCase(extname(vName)) = DotPy /\ vSize > 5 * 1024 * 1024)
               => vOut.server = "size"
        /\ (toLowerCase(extname(vName)) = DotPy /\ vSize = 0) => vOut.server = "empty"

\* an empty file with a wrong extension has been rejected for its extension
C2_Witness ==
    /\ vpc = "validated"
    /\ vSize = 0
    /\ vName = <<"a", ".", "a">>
    /\ vOut.server = "extension"

\* C3: the client validator and the server validator of the same variant
\* decide identically on every (name, size), rule for rule.
C3_ClientServerAgree ==
    vpc = "validated" =>
        /\ vOut.hook = vOut.server
        /\ vOut.standalone = vOut.multer

----------------------------------------------------------------------------
(* Properties of the upload orchestration (checked under Spec)             *)

\* the candidate violates a validation rule
Invalid(name, size) ==
    \/ toLowerCase(extname(name)) # DotPy
    \/ size > 5 * 1024 * 1024
    \/ size = 0

\* C4: every metadata row references a storage key whose blob exists in the
\* bucket, whichever of the transfer, the insert and the remove fail.
C4_NoOrphanRecord ==
    \A f \in files : \E b \in storage : b.key = f.storage_path

\* a row with its blob, next to an orphaned blob left by a failed rollback
C4_Witness ==
    /\ files # {}
    /\ \E r \in Reqs :
          /\ req[r].outcome = "DatabaseInsertFailed"
          /\ calls[r][3].result = "error"
          /\ \E b \in storage : b.key = req[r].path
          /\ ~\E f \in files : f.storage_path = req[r].path

\* C5: uploadFile on a candidate that fails validation fails with a
\* FileValidationError, issues no upload, insert or remove, and leaves the
\* bucket and the table unchanged.
C5_ValidationFailureNoSideEffect ==
    [][\A r \in Reqs :
          (req'[r].route = "rich" /\ Invalid(req'[r].name, req'[r].size)) =>
              /\ req'[r].pc = "done"
              /\ req'[r].outcome = "FileValidationError"
              /\ calls'[r] = <<>>
              /\ req[r].pc = "idle" =>
                     (storage' = storage /\ files' = files /\ calls' = calls)]_vars

\* an empty .py file has been rejected by uploadFile
C5_Witness ==
    \E r \in Reqs :
        /\ req[r].route = "rich"
        /\ req[r].size = 0
        /\ req[r].name = <<"a", ".", "p", "y">>
        /\ req[r].outcome = "FileValidationError"

\* C6: when the storage transfer fails, uploadFile ends with the storage
\* error, no insert is issued and no row with the request's id exists.
C6_StorageFailureStops ==
    \A r \in Reqs :
        (req[r].route = "rich" /\ Len(calls[r]) >= 1 /\ calls[r][1].result = "error") =>
            /\ req[r].pc = "done"
            /\ req[r].outcome = "StorageUploadFailed"
            /\ Len(calls[r]) = 1
            /\ ~\E f \in files : f.id = req[r].uuid

\* a transfer has failed while another request's row exists
C6_Witness ==
    /\ files # {}
    /\ \E r \in Reqs :
          /\ req[r].route = "rich"
          /\ Len(calls[r]) = 1
          /\ calls[r][1].result = "error"

\* C7: when the insert fails after a successful transfer, a remove is issued
\* for exactly the key just written, the blob is gone once the remove
\* succeeds, and the caller receives the database error.
C7_RollbackThenDbError ==
    \A r \in Reqs :
        (/\ req[r].route = "rich"
         /\ Len(calls[r]) >= 2
         /\ calls[r][1].result = "ok"
         /\ calls[r][2].op = "insert"
         /\ calls[r][2].result = "error") =>
            /\ Len(calls[r]) = 3
            /\ calls[r][3].op = "remove"
            /\ calls[r][3].key = calls[r][1].key
            /\ calls[r][3].result = "ok" => ~\E b \in storage : b.key = calls[r][1].key
            /\ req[r].pc = "done" => req[r].outcome = "DatabaseInsertFailed"

\* C8: within a request the upload has completed before the insert is
\* issued, the remove is issued only after a failed insert, and no remove is
\* issued on the success path.
C8_IntraRequestOrder ==
    \A r \in Reqs :
        req[r].route = "rich" =>
            /\ Len(calls[r]) <= 3
            /\ Len(calls[r]) >= 1 => calls[r][1].op = "upload"
            /\ Len(calls[r]) >= 2 => (calls[r][2].op = "insert" /\ calls[r][1].result = "ok")
            /\ Len(calls[r]) >= 3 => (calls[r][3].op = "remove" /\ calls[r][2].result = "error")
            /\ req[r].outcome = "ok" => (Len(calls[r]) = 2 /\ calls[r][2].result = "ok")

\* a request has gone through upload, failed insert and remove
C8_Witness ==
    \E r \in Reqs :
        /\ req[r].route = "rich"
        /\ req[r].pc = "done"
        /\ Len(calls[r]) = 3
        /\ calls[r][3].result = "ok"

\* C9: any two requests compute distinct storage keys, every upload is
\* issued with upsert off, and the blob under an existing key is never
\* replaced.
C9_KeysNeverReused ==
    [][/\ \A r1, r2 \in Reqs :
              (r1 # r2 /\ req'[r1].path # <<>> /\ req'[r2].path # <<>>)
                  => req'[r1].path # req'[r2].path
       /\ \A r \in Reqs : \A i \in 1..Len(calls'[r]) :
              calls'[r][i].op = "upload" => ~calls'[r][i].upsert
       /\ \A b \in storage : \A c \in storage' : c.key = b.key => c = b
       /\ \A b \in simpleStorage : \A c \in simpleStorage' : c.key = b.key => c = b]_vars

\* two uploads of the same name by the same owner are both stored
C9_Witness ==
    \E r1, r2 \in Reqs :
        /\ r1 # r2
        /\ req[r1].route = "rich" /\ req[r2].route = "rich"
        /\ req[r1].userId = req[r2].userId
        /\ req[r1].name = req[r2].name
        /\ \E b \in storage : b.key = req[r1].path
        /\ \E b \in storage : b.key = req[r2].path

\* C10: in both variants every stored blob has passed the full rule set on
\* the server: extension .py, size at most 5 MiB, size not zero.
C10_StoredBlobsValidated ==
    \A b \in storage \cup simpleStorage : ~Invalid(b.name, b.size)

----------------------------------------------------------------------------
(* Clients: the FileUploader widget (utils/uploadFile) and the             *)
(* useFileUpload hook (uploadPyFile). One action per event handler; a      *)
(* transfer's settling and the continuation after the await are one step,  *)
(* since the continuation runs as a microtask of the settling event.       *)

\* the files a user offers: name and byte size
ClientFiles ==
    {[name |-> <<"a", ".", "p", "y">>, size |-> 42],
     [name |-> <<"a", ".", "p", "y">>, size |-> 0],
     [name |-> <<"a", ".", "p", "y">>, size |-> MAX_FILE_SIZE + 1],
     [name |-> <<"a", ".", "P", "y">>, size |-> 42],
     [name |-> <<"a", ".", "a">>, size |-> 42]}

\* the events that end an XMLHttpRequest
XhrEvents == {"loadOk", "loadOkBadJson", "loadErrJson", "loadErrJsonNoError",
              "loadErrNoJson", "error", "abort"}

\* the message validatePythonFile (standalone) returns for a rule
widgetValidationMessage(rule) ==
    IF rule = "extension" THEN "Only .py files are allowed"
    ELSE IF rule = "size" THEN "File size must be 5 MB or less"
    ELSE null

\* the message validateClientSide (hook) returns for a rule
hookValidationMessage(rule, size) ==
    IF rule = "extension" THEN "Only .py files are allowed"
    ELSE IF rule = "size" THEN "File exceeds 5 MB limit (" \o toFixed2MB(size) \o " MB)"
    ELSE IF rule = "empty" THEN "File is empty"
    ELSE null

\* Math.round((event.loaded / event.total) * 100)
percentOf(loaded, total) == (loaded * 200 + total) \div (2 * total)

\* uploadFile (standalone client): how the promise settles on each event.
\* A throw of JSON.parse inside the load listener leaves it pending.
clientUploadFileOutcome(ev) ==
    IF ev = "loadOk" THEN [st |-> "resolved", msg |-> null]
    ELSE IF ev = "loadOkBadJson" THEN [st |-> "hung", msg |-> null]
    ELSE IF ev = "loadErrJson" THEN [st |-> "rejected", msg |-> "<response.error>"]
    ELSE IF ev = "loadErrJsonNoError" THEN [st |-> "rejected", msg |-> "Upload failed"]
    ELSE IF ev = "loadErrNoJson" THEN [st |-> "rejected", msg |-> "Upload failed with status"]
    ELSE IF ev = "error" THEN [st |-> "rejected", msg |-> "Network error"]
    ELSE [st |-> "rejected", msg |-> "Upload cancelled"]

\* uploadPyFile (hook client): no abort listener, JSON.parse unguarded
uploadPyFileOutcome(ev) ==
    IF ev = "loadOk" THEN [st |-> "resolved", msg |-> null]
    ELSE IF ev \in {"loadOkBadJson", "loadErrNoJson", "abort"} THEN [st |-> "hung", msg |-> null]
    ELSE IF ev = "loadErrJson" THEN [st |-> "rejected", msg |-> "<body.error>"]
    ELSE IF ev = "loadErrJsonNoError"
    THEN [st |-> "rejected", msg |-> "Upload failed with status"]
    ELSE [st |-> "rejected", msg |-> "Network error during file upload"]

Active == {t \in DOMAIN xfers : xfers[t].st = "active"}

\* xhr.send: a new transfer (of file f), nothing loaded yet
sent(f) == Append(xfers, [loaded |-> 0, st |-> "active"])

\* transfer t has ended in st; its progress counters are read no more
ended(t, st) == [xfers EXCEPT ![t] = [loaded |-> 0, st |-> st]]

\* handleDragEnter after the increment: the first enter shows 'dragging'
stateAfterDragEnter(counterAfter, prev) ==
    IF counterAfter = 1 THEN "dragging" ELSE prev

stateAfterDragLeave_anyLeave(counterAfter, prev) ==
    IF prev = "dragging" THEN "idle" ELSE prev

\* handleDragLeave after the decrement: the last leave ends 'dragging'
stateAfterDragLeave(counterAfter, prev) ==
    IF counterAfter = 0 THEN (IF prev = "dragging" THEN "idle" ELSE prev) ELSE prev

\* the gesture history after a drag event that took the state from prev to
\* next and the counter from before to after
gestureAfter(prev, next, before, after) ==
    LET base == IF before = 0
                THEN [pure |-> prev = "idle" /\ Active = {}, peak |-> 0,
                      toDragging |-> 0, toIdle |-> 0]
                ELSE gesture
    IN  IF ~base.pure THEN NoGesture
        ELSE [pure |-> TRUE,
              peak |-> IF after > base.peak THEN after ELSE base.peak,
              toDragging |-> base.toDragging
                                + (IF prev # "dragging" /\ next = "dragging" THEN 1 ELSE 0),
              toIdle |-> base.toIdle
                            + (IF prev = "dragging" /\ next = "idle" THEN 1 ELSE 0)]

handleDragEnter ==
    /\ variant = "widget"
    /\ dragCounter < MaxDrag
    /\ dragCounter' = dragCounter + 1
    /\ wState' = stateAfterDragEnter(dragCounter + 1, wState)
    /\ gesture' = gestureAfter(wState, wState', dragCounter, dragCounter')
    /\ UNCHANGED <<wProgress, wError, wUploadedFile, xfers>>
    /\ UNCHANGED <<variant, completeCalls, hookVars, valVars, srvVars>>

\* a dragleave follows a dragenter of the same element
handleDragLeave ==
    /\ variant = "widget"
    /\ dragCounter > 0
    /\ dragCounter' = dragCounter - 1
    /\ wState' = stateAfterDragLeave(dragCounter - 1, wState)
    /\ gesture' = gestureAfter(wState, wState', dragCounter, dragCounter')
    /\ UNCHANGED <<wProgress, wError, wUploadedFile, xfers>>
    /\ UNCHANGED <<variant, completeCalls, hookVars, valVars, srvVars>>

\* processFile up to its await: local validation, then the transfer starts
processFile(f) ==
    LET rule == validatePythonFileClient(f.name, f.size)
    IN  IF rule # "ok"
        THEN /\ wError' = widgetValidationMessage(rule)
             /\ wState' = "error"
             /\ UNCHANGED <<wProgress, wUploadedFile, xfers>>
        ELSE /\ Len(xfers) < MaxXfers
             /\ wError' = null
             /\ wState' = "uploading"
             /\ wProgress' = 0
             /\ wUploadedFile' = 0
             /\ xfers' = sent(f)

\* handleDrop: hasFile is whether dataTransfer.files[0] exists
handleDrop(hasFile, f) ==
    /\ variant = "widget"
    /\ dragCounter' = 0
    /\ gesture' = NoGesture
    /\ IF hasFile THEN processFile(f)
       ELSE /\ wError' = "No file detected"
            /\ wState' = "error"
            /\ UNCHANGED <<wProgress, wUploadedFile, xfers>>
    /\ UNCHANGED <<variant, completeCalls, hookVars, valVars, srvVars>>

\* the file picker opens by a click on the drop zone while idle or
\* dragging, and by Enter or Space on it in every state
pickerOpens(via) ==
    IF via = "click" THEN wState \in {"idle", "dragging"} ELSE TRUE

\* handleFileInput with a selected file
handleFileInput(via, f) ==
    /\ variant = "widget"
    /\ pickerOpens(via)
    /\ processFile(f)
    /\ gesture' = NoGesture
    /\ UNCHANGED dragCounter
    /\ UNCHANGED <<variant, completeCalls, hookVars, valVars, srvVars>>

resetShown_successOnly(state, uploadedFile) == state = "success" /\ uploadedFile # 0

\* the blocks that render 'Upload another file' and 'Try again'
resetShown(state, uploadedFile) ==
    \/ state = "success" /\ uploadedFile # 0
    \/ state = "error"

handleReset ==
    /\ variant = "widget"
    /\ resetShown(wState, wUploadedFile)
    /\ wState' = "idle"
    /\ wError' = null
    /\ wProgress' = 0
    /\ wUploadedFile' = 0
    /\ gesture' = NoGesture
    /\ UNCHANGED <<dragCounter, xfers>>
    /\ UNCHANGED <<variant, completeCalls, hookVars, valVars, srvVars>>

\* a progress event of transfer t with lengthComputable: onProgress(percent)
xhrProgress(t, loaded) ==
    /\ variant = "widget"
    /\ t \in Active
    /\ loaded \in xfers[t].loaded..MaxChunks
    /\ xfers' = [xfers EXCEPT ![t].loaded = loaded]
    /\ wProgress' = percentOf(loaded, MaxChunks)
    /\ gesture' = NoGesture
    /\ UNCHANGED <<wState, wError, wUploadedFile, dragCounter>>
    /\ UNCHANGED <<variant, completeCalls, hookVars, valVars, srvVars>>

completeCallsAfter_always(st, t) == Append(completeCalls, t)

\* onUploadComplete?.(result) runs in the try block, after a resolved await
completeCallsAfter(st, t) ==
    IF st = "resolved" THEN Append(completeCalls, t) ELSE completeCalls

\* transfer t ends with event ev; processFile resumes after its await
xhrSettles(t, ev) ==
    /\ variant = "widget"
    /\ t \in Active
    /\ LET out == clientUploadFileOutcome(ev)
       IN  /\ xfers' = ended(t, out.st)
           /\ IF out.st = "resolved"
              THEN /\ wUploadedFile' = t
                   /\ wState' = "success"
                   /\ UNCHANGED wError
              ELSE IF out.st = "rejected"
              THEN /\ wError' = out.msg
                   /\ wState' = "error"
                   /\ UNCHANGED wUploadedFile
              ELSE UNCHANGED <<wState, wError, wUploadedFile>>
    /\ completeCalls' = completeCallsAfter(clientUploadFileOutcome(ev).st, t)
    /\ gesture' = NoGesture
    /\ UNCHANGED <<wProgress, dragCounter>>
    /\ UNCHANGED <<variant, hookVars, valVars, srvVars>>

\* useFileUpload.clearError
clearError ==
    /\ variant = "hook"
    /\ hUploadState' = [hUploadState EXCEPT !.error = null]
    /\ UNCHANGED <<hUploadedFiles, xfers>>
    /\ UNCHANGED <<variant, widgetVars, valVars, srvVars>>

\* useFileUpload.handleUpload up to its await
handleUpload(f) ==
    /\ variant = "hook"
    /\ LET rule == validateClientSide(f.name, f.size)
       IN  IF rule # "ok"
           THEN /\ hUploadState' = [isUploading |-> FALSE, progress |-> 0,
                                     error |-> hookValidationMessage(rule, f.size)]
                /\ UNCHANGED xfers
           ELSE /\ Len(xfers) < MaxXfers
                /\ hUploadState' = [isUploading |-> TRUE, progress |-> 0, error |-> null]
                /\ xfers' = sent(f)
    /\ UNCHANGED hUploadedFiles
    /\ UNCHANGED <<variant, widgetVars, valVars, srvVars>>

\* a progress event of the hook's transfer t
hookProgress(t, loaded) ==
    /\ variant = "hook"
    /\ t \in Active
    /\ loaded \in xfers[t].loaded..MaxChunks
    /\ xfers' = [xfers EXCEPT ![t].loaded = loaded]
    /\ hUploadState' = [hUploadState EXCEPT !.progress = percentOf(loaded, MaxChunks)]
    /\ UNCHANGED hUploadedFiles
    /\ UNCHANGED <<variant, widgetVars, valVars, srvVars>>

uploadedFilesAfter_replace(t) == <<t>>

\* setUploadedFiles((prev) => [result, ...prev]) for the result of transfer t
uploadedFilesAfter(t) == <<t>> \o hUploadedFiles

\* the hook's transfer t ends with event ev; handleUpload resumes
hookSettles(t, ev) ==
    /\ variant = "hook"
    /\ t \in Active
    /\ LET out == uploadPyFileOutcome(ev)
       IN  /\ xfers' = ended(t, out.st)
           /\ IF out.st = "resolved"
              THEN /\ hUploadedFiles' = uploadedFilesAfter(t)
                   /\ hUploadState' = [isUploading |-> FALSE, progress |-> 100,
                                        error |-> null]
              ELSE IF out.st = "rejected"
              THEN /\ hUploadState' = [isUploading |-> FALSE, progress |-> 0,
                                        error |-> out.msg]
                   /\ UNCHANGED hUploadedFiles
              ELSE UNCHANGED <<hUploadState, hUploadedFiles>>
    /\ UNCHANGED <<variant, widgetVars, valVars, srvVars>>

InitClient ==
    /\ vpc = "off"
    /\ vName = <<>>
    /\ vSize = 0
    /\ vOut = NoOut
    /\ req = [r \in Reqs |-> NoReq]
    /\ calls = [r \in Reqs |-> <<>>]
    /\ storage = {}
    /\ simpleStorage = {}
    /\ files = {}
    /\ nextUuid = 0
    /\ variant \in {"widget", "hook"}
    /\ ClientConstructed

\* what the user can do to the widget
UserAction ==
    \/ handleDragEnter
    \/ handleDragLeave
    \/ \E hasFile \in BOOLEAN, f \in ClientFiles : handleDrop(hasFile, f)
    \/ \E via \in {"click", "keyboard"}, f \in ClientFiles : handleFileInput(via, f)
    \/ handleReset

NextClient ==
    \/ handleDragEnter
    \/ handleDragLeave
    \/ \E hasFile \in BOOLEAN, f \in ClientFiles : handleDrop(hasFile, f)
    \/ \E via \in {"click", "keyboard"}, f \in ClientFiles : handleFileInput(via, f)
    \/ handleReset
    \/ \E t \in 1..MaxXfers, loaded \in 0..MaxChunks : xhrProgress(t, loaded)
    \/ \E t \in 1..MaxXfers, ev \in XhrEvents : xhrSettles(t, ev)
    \/ clearError
    \/ \E f \in ClientFiles : handleUpload(f)
    \/ \E t \in 1..MaxXfers, loaded \in 0..MaxChunks : hookProgress(t, loaded)
    \/ \E t \in 1..MaxXfers, ev \in XhrEvents : hookSettles(t, ev)

SpecClient == InitClient /\ [][NextClient]_vars

\* ---- the clients ----

AllowedTransitions ==
    {<<"idle", "dragging">>, <<"dragging", "idle">>,
     <<"idle", "uploading">>, <<"dragging", "uploading">>,
     <<"idle", "error">>, <<"dragging", "error">>,
     <<"uploading", "success">>, <<"uploading", "error">>,
     <<"success", "idle">>, <<"error", "idle">>}

\* C11: the widget's state changes only along idle -> dragging,
\* dragging -> idle, idle/dragging -> uploading, idle/dragging -> error,
\* uploading -> success, uploading -> error, and success -> idle and
\* error -> idle by reset; no dragenter or dragleave changes the state in
\* uploading, success or error.
C11_OnlyListedTransitions ==
    [][variant = "widget" =>
          /\ wState' # wState => <<wState, wState'>> \in AllowedTransitions
          /\ (wState \in {"success", "error"} /\ wState' = "idle") => handleReset
          /\ ((handleDragEnter \/ handleDragLeave)
                 /\ wState \in {"uploading", "success", "error"}) => wState' = wState]_vars

\* C12: the widget enters dragging only on the dragenter that takes the
\* counter from 0 to 1, leaves dragging for idle only on the dragleave that
\* takes it from 1 to 0, and a drop sets the counter to 0; so a gesture of
\* nested enters and leaves over an idle widget, without a drop, shows
\* dragging throughout and makes one idle -> dragging and one
\* dragging -> idle transition.
C12_ReferenceCounted ==
    /\ [][variant = "widget" =>
             /\ (wState # "dragging" /\ wState' = "dragging") =>
                    (handleDragEnter /\ dragCounter = 0 /\ dragCounter' = 1)
             /\ (wState = "dragging" /\ wState' = "idle") =>
                    (handleDragLeave /\ dragCounter = 1 /\ dragCounter' = 0)
             /\ (\E hasFile \in BOOLEAN, f \in ClientFiles : handleDrop(hasFile, f)) =>
                    dragCounter' = 0]_vars
    /\ [](gesture.pure =>
             /\ gesture.toDragging = 1
             /\ dragCounter > 0 => (wState = "dragging" /\ gesture.toIdle = 0)
             /\ dragCounter = 0 => (wState = "idle" /\ gesture.toIdle = 1))

\* the container and three nested children were entered and all left
C12_Witness ==
    /\ gesture.pure
    /\ gesture.peak = 4
    /\ dragCounter = 0
    /\ wState = "idle"

\* C13: at most one transfer is in flight at any time, in both clients.
C13_SingleTransfer ==
    Cardinality(Active) <= 1

LocallyInvalidWidget(f) ==
    \/ ~endsWith(toLowerCase(f.name), DotPy)
    \/ f.size > 5 * 1024 * 1024

LocallyInvalidHook(f) ==
    \/ ~endsWith(f.name, DotPy)
    \/ f.size > 5 * 1024 * 1024
    \/ f.size = 0

\* C14: a drop or a file-picker selection of a file that fails local
\* validation puts the widget in error with the validation message (the
\* hook: not uploading, error set to the validation message) and starts no
\* transfer.
C14_InvalidNoTransfer ==
    [][\A f \in ClientFiles :
          /\ (/\ LocallyInvalidWidget(f)
              /\ \/ handleDrop(TRUE, f)
                 \/ \E via \in {"click", "keyboard"} : handleFileInput(via, f)) =>
                 /\ wState' = "error"
                 /\ wError' = IF ~endsWith(toLowerCase(f.name), DotPy)
                               THEN "Only .py files are allowed"
                               ELSE "File size must be 5 MB or less"
                 /\ xfers' = xfers
          /\ (LocallyInvalidHook(f) /\ handleUpload(f)) =>
                 /\ ~hUploadState'.isUploading
                 /\ hUploadState'.error # null
                 /\ hUploadState'.error
                        = hookValidationMessage(validateClientSide(f.name, f.size), f.size)
                 /\ xfers' = xfers]_vars

\* a file without the .py extension was offered to a fresh widget
C14_Witness ==
    /\ variant = "widget"
    /\ wState = "error"
    /\ wError = "Only .py files are allowed"
    /\ xfers = <<>>

\* C24: when a transfer of the widget succeeds, the widget is in success
\* with that transfer's descriptor stored and onUploadComplete is called
\* once with it; when it fails, the widget is in error with the failure's
\* message and onUploadComplete is not called. No other step calls it.
C24_CompletionCallback ==
    /\ [][variant = "widget" =>
             /\ \A t \in 1..MaxXfers, ev \in XhrEvents :
                   xhrSettles(t, ev) =>
                       /\ xfers'[t].st = "resolved" =>
                              /\ wState' = "success"
                              /\ wUploadedFile' = t
                              /\ completeCalls' = Append(completeCalls, t)
                       /\ xfers'[t].st = "rejected" =>
                              /\ wState' = "error"
                              /\ wError' = clientUploadFileOutcome(ev).msg
                              /\ wError' # null
                              /\ completeCalls' = completeCalls
             /\ completeCalls' # completeCalls =>
                    \E t \in 1..MaxXfers :
                        /\ t \in Active
                        /\ xfers'[t].st = "resolved"
                        /\ completeCalls' = Append(completeCalls, t)]_vars
    /\ [](variant = "widget" =>
             \A t \in DOMAIN xfers :
                 Cardinality({i \in DOMAIN completeCalls : completeCalls[i] = t})
                     = IF xfers[t].st = "resolved" THEN 1 ELSE 0)

\* one transfer has succeeded and one has failed
C24_Witness ==
    /\ variant = "widget"
    /\ \E t1, t2 \in DOMAIN xfers :
          /\ xfers[t1].st = "resolved"
          /\ xfers[t2].st = "rejected"
    /\ Len(completeCalls) = 1

\* C26: in the hook, uploadedFiles gains one entry, the returned
\* descriptor, at each successful transfer and at no other step; the
\* entries already in it stay as they are.
C26_UploadedFilesGrowOnly ==
    /\ [][variant = "hook" =>
             /\ \A t \in 1..MaxXfers, ev \in XhrEvents :
                   (hookSettles(t, ev) /\ xfers'[t].st = "resolved") =>
                       hUploadedFiles' = <<t>> \o hUploadedFiles
             /\ hUploadedFiles' # hUploadedFiles =>
                    \E t \in Active :
                        /\ xfers'[t].st = "resolved"
                        /\ hUploadedFiles' = <<t>> \o hUploadedFiles
             /\ (\/ clearError
                 \/ \E f \in ClientFiles : handleUpload(f)
                 \/ \E t \in 1..MaxXfers, loaded \in 0..MaxChunks : hookProgress(t, loaded)) =>
                    hUploadedFiles' = hUploadedFiles]_vars
    /\ [](variant = "hook" =>
             \A t \in DOMAIN xfers :
                 Cardinality({i \in DOMAIN hUploadedFiles : hUploadedFiles[i] = t})
                     = IF xfers[t].st = "resolved" THEN 1 ELSE 0)

\* two transfers of the hook have succeeded, the first after the second
C26_Witness ==
    /\ variant = "hook"
    /\ hUploadedFiles = <<1, 2>>

\* C27: once the transport of a transfer has fired its terminal event (load
\* with any status and body, error, abort), the upload promise is resolved or
\* rejected: no transfer is left with a finished transport and a pending
\* promise, which would keep the widget in uploading (the hook: isUploading).
C27_TerminalEventSettles ==
    \A t \in DOMAIN xfers : xfers[t].st \in {"active", "resolved", "rejected"}

\* C28: in the hook, uploadState.isUploading is true exactly when a
\* transfer the hook started has not settled yet.
C28_IsUploadingExact ==
    variant = "hook" =>
        (hUploadState.isUploading
            = (\E t \in DOMAIN xfers : xfers[t].st \notin {"resolved", "rejected"}))

\* C29: in every state of the widget, success implies a stored descriptor,
\* error implies a non-null error message, and idle implies error null,
\* no stored descriptor and progress 0.
C29_FieldsAgreeWithState ==
    variant = "widget" =>
        /\ wState = "success" => wUploadedFile # 0
        /\ wState = "error" => wError # null
        /\ wState = "idle" => (wError = null /\ wUploadedFile = 0 /\ wProgress = 0)

\* C15: the widget's progress is within 0..100, is 0 when a transfer has
\* just started, is not lowered by a progress update in the uploading
\* state, and a progress update leaves the state as it is. (In uploading
\* the progress is 0 or the value of the latest update, so an update that
\* lowers it follows an update with a higher value.)
C15_ProgressMonotone ==
    [][variant = "widget" =>
          /\ wProgress' \in 0..100
          /\ Len(xfers') > Len(xfers) => wProgress' = 0
          /\ \A t \in 1..MaxXfers, loaded \in 0..MaxChunks :
                xhrProgress(t, loaded) =>
                    /\ wState' = wState
                    /\ wState = "uploading" => wProgress' >= wProgress]_vars

\* the number of user actions the widget is away from idle, at most
WidgetRank ==
    IF wState = "idle" THEN 0
    ELSE IF wState \in {"success", "error"} THEN 1
    ELSE 2

\* C16: in success and in error the reset is enabled and gives idle with
\* error null, progress 0 and no stored descriptor; and in every state
\* other than idle some user action brings the widget nearer to idle.
C16_Resettable ==
    variant = "widget" =>
        /\ wState \in {"success", "error"} =>
               ENABLED (/\ handleReset
                        /\ wState' = "idle"
                        /\ wError' = null
                        /\ wProgress' = 0
                        /\ wUploadedFile' = 0)
        /\ WidgetRank > 0 => ENABLED (UserAction /\ WidgetRank' < WidgetRank)

\* idle again, with nothing shown, after a transfer succeeded
C16_Witness ==
    /\ variant = "widget"
    /\ wState = "idle"
    /\ wError = null
    /\ wUploadedFile = 0
    /\ xfers # <<>>
    /\ \A t \in DOMAIN xfers : xfers[t].st = "resolved"

\* ---- the HTTP boundary ----

contains(msg, part) == \E i \in DOMAIN msg : msg[i] = part

StoredFor(r) ==
    \/ \E b \in storage \cup simpleStorage : b.by = r
    \/ \E f \in files : f.id = req[r].uuid /\ req[r].uuid # ""

BadHeaders == Headers \ {"bearer_valid"}

\* C17: on POST /api/files a request without an Authorization header, with a
\* non-Bearer header, with an invalid token or with an expired token is
\* answered 401, the next handler is not called, no validation runs and no
\* storage or metadata call is made for it; the responses to an invalid and
\* to an expired token are the same status and the same body.
C17_Unauthenticated401 ==
    /\ \A r \in Reqs :
          (req[r].route = "api" /\ req[r].header \in BadHeaders) =>
              /\ req[r].pc = "done"
              /\ req[r].status = 401
              /\ req[r].body.fmt = "json_error"
              /\ ~req[r].next
              /\ req[r].rule = "none"
              /\ calls[r] = <<>>
              /\ ~StoredFor(r)
    /\ \A r1, r2 \in Reqs :
          (/\ req[r1].route = "api" /\ req[r1].header = "bearer_invalid"
           /\ req[r2].route = "api" /\ req[r2].header = "bearer_expired") =>
              (req[r1].status = req[r2].status /\ req[r1].body = req[r2].body)

\* an invalid and an expired token have both been answered
C17_Witness ==
    \E r1, r2 \in Reqs :
        /\ req[r1].route = "api" /\ req[r1].header = "bearer_invalid"
        /\ req[r2].route = "api" /\ req[r2].header = "bearer_expired"
        /\ req[r1].pc = "done" /\ req[r2].pc = "done"

\* a request whose multipart file went through an endpoint's middleware
OverLimit(r) ==
    /\ req[r].route \in {"api", "simple"}
    /\ req[r].hasFile
    /\ req[r].size > 5 * 1024 * 1024

Answered413(r) ==
    /\ req[r].pc = "done"
    /\ req[r].status = 413
    /\ req[r].body.fmt = "json_error"
    /\ req[r].body.msg # <<>>
    /\ calls[r] = <<>>
    /\ ~StoredFor(r)

C19_NonPyRejected ==
    \A r \in Reqs :
        (/\ req[r].route \in {"api", "simple"}
         /\ req[r].hasFile
         /\ ~endsWith(toLowerCase(req[r].name), DotPy)) =>
            /\ req[r].pc = "done"
            /\ req[r].status \in {400, 422}
            /\ req[r].body.fmt = "json_error"
            /\ contains(req[r].body.msg, "Only .py files are allowed")
            /\ calls[r] = <<>>
            /\ ~StoredFor(r)

\* C20: every error response of an upload endpoint is { error: <message> },
\* the text of an SDK error is in no response, storage and metadata failures
\* are 500 with the generic message and validation failures are 4xx with
\* the validation message.
C20_ErrorsCategorized ==
    \A r \in Reqs :
        (req[r].route \in {"api", "simple"} /\ req[r].pc = "done"
            /\ req[r].outcome # "ok") =>
            /\ req[r].body.fmt = "json_error"
            /\ ~contains(req[r].body.msg, SdkText)
            /\ req[r].outcome \in {"StorageUploadFailed", "DatabaseInsertFailed",
                                    "RemoveRejected"} =>
                   (req[r].status = 500 /\ req[r].body.msg = <<"Internal server error">>)
            /\ req[r].outcome \in {"FileValidationError", "FilterRejected",
                                    "LimitFileSize", "NoFile"} =>
                   (req[r].status \in 400..499 /\ req[r].body.msg # <<>>)

\* ---- responses and keys ----

CallResults(r) == [i \in DOMAIN calls[r] |-> <<calls[r][i].op, calls[r][i].result>>]

\* C21: a successful ingest on POST /api/files is answered 201 with exactly
\* the fields id, fileName, sizeBytes, uploadedAt: id is the unique id in
\* the blob's storage key, fileName the original name, sizeBytes the byte
\* length; and a 201 is sent only after the upload and the insert have both
\* succeeded, with the blob and the row in place.
C21_SuccessResponse ==
    \A r \in Reqs :
        req[r].route = "api" =>
            /\ (req[r].status = 201) = (req[r].pc = "done" /\ req[r].outcome = "ok")
            /\ req[r].status # 201 => DOMAIN req[r].payload = {}
            /\ req[r].status = 201 =>
                   /\ DOMAIN req[r].payload = {"id", "fileName", "sizeBytes", "uploadedAt"}
                   /\ req[r].payload.id = req[r].uuid
                   /\ req[r].path[3] = req[r].payload.id
                   /\ req[r].payload.fileName = req[r].name
                   /\ req[r].payload.sizeBytes = req[r].size
                   /\ CallResults(r) = << <<"upload", "ok">>, <<"insert", "ok">> >>
                   /\ \E b \in storage : b.key = req[r].path /\ b.size = req[r].size
                   /\ \E f \in files : f.id = req[r].payload.id
                                         /\ f.storage_path = req[r].path

\* a 201 has been sent on the authenticated endpoint
C21_Witness ==
    \E r \in Reqs : req[r].route = "api" /\ req[r].status = 201

\* C22: when the insert has failed and the compensating remove fails too,
\* by returning an error or by throwing, uploadFile still ends with the
\* database-insert error, not with an error of the remove.
C22_RemoveFailureNotEscalated ==
    \A r \in Reqs :
        (/\ req[r].route \in {"rich", "api"}
         /\ req[r].pc = "done"
         /\ Len(calls[r]) = 3
         /\ calls[r][3].op = "remove"
         /\ calls[r][3].result \in {"error", "throw"}) =>
            req[r].outcome = "DatabaseInsertFailed"

\* a request of an HTTP endpoint for which a storage key was computed
Keyed(r) == req[r].route \in {"api", "simple"} /\ req[r].path # <<>>

KeyHasOwnerAndUuid(r) ==
    /\ Len(req[r].path) >= 3
    /\ req[r].path[1] = req[r].userId
    /\ req[r].path[2] = "/"
    /\ req[r].path[3] = req[r].uuid
    /\ req[r].uuid # ""

ReportedSize(r) ==
    IF req[r].route = "api" THEN req[r].payload.sizeBytes
    ELSE req[r].payload.file.sizeBytes

\* C23 as stated: in both backend variants the storage key of an upload of
\* name N by owner O starts with O/, contains the generated UUID and ends
\* with N, and the reported sizeBytes is the uploaded byte count.
C23_KeyEndsWithName ==
    \A r \in Reqs :
        Keyed(r) =>
            /\ KeyHasOwnerAndUuid(r)
            /\ endsWith(req[r].path, req[r].name)
            /\ req[r].status = 201 => ReportedSize(r) = req[r].size

\* C23 amended: the key starts with O/ followed by the generated UUID in
\* both variants; it ends with '_' and the original name N on
\* POST /files/upload, and with the extension of N alone on POST /api/files;
\* the reported sizeBytes is the uploaded byte count in both.
C23_KeyPerVariant ==
    \A r \in Reqs :
        Keyed(r) =>
            /\ KeyHasOwnerAndUuid(r)
            /\ req[r].route = "simple" =>
                   req[r].path = SubSeq(req[r].path, 1, 3) \o <<"_">> \o req[r].name
            /\ req[r].route = "api" =>
                   req[r].path = SubSeq(req[r].path, 1, 3) \o extname(req[r].name)
            /\ req[r].status = 201 => ReportedSize(r) = req[r].size

\* an upload has succeeded on each endpoint
C23_Witness ==
    \E r1, r2 \in Reqs :
        /\ req[r1].route = "api" /\ req[r1].status = 201
        /\ req[r2].route = "simple" /\ req[r2].status = 201

\* C25: the simple handleFileUpload answers a request without a file with
\* 400 'No file provided' and makes no storage call; a request whose
\* storage call failed with 500 and the thrown error's message; a request
\* whose storage call succeeded with 201 and { message, file: { filename,
\* storagePath, sizeBytes } }; and it stores under owner 'anonymous'.
C25_SimpleHandlerTotal ==
    \A r \in Reqs :
        (req[r].route = "simple" /\ req[r].pc = "done"
            /\ req[r].outcome \in {"NoFile", "StorageUploadFailed", "ok"}) =>
            /\ ~req[r].hasFile =>
                   /\ req[r].status = 400
                   /\ req[r].body = [fmt |-> "json_error", msg |-> <<"No file provided">>]
                   /\ calls[r] = <<>>
            /\ req[r].hasFile =>
                   /\ Len(calls[r]) = 1
                   /\ calls[r][1].op = "upload"
                   /\ req[r].userId = "anonymous"
                   /\ calls[r][1].key[1] = "anonymous"
                   /\ calls[r][1].result = "error" =>
                          /\ req[r].status = 500
                          /\ req[r].body = [fmt |-> "json_error",
                                            msg |-> <<"Storage upload failed: ", SdkText>>]
                   /\ calls[r][1].result = "ok" =>
                          /\ req[r].status = 201
                          /\ DOMAIN req[r].payload = {"message", "file"}
                          /\ req[r].payload.file
                                 = [filename |-> req[r].name, storagePath |-> req[r].path,
                                    sizeBytes |-> req[r].size]

\* one upload failed in storage and one succeeded on the simple endpoint
C25_Witness ==
    \E r1, r2 \in Reqs :
        /\ req[r1].route = "simple" /\ req[r1].status = 500
        /\ req[r2].route = "simple" /\ req[r2].status = 201

\* C30: on POST /api/files authenticate either sends one 401 or calls next
\* once, never both and never neither; and each handleFileUpload, of either
\* variant, has sent no response while it awaits and exactly one when it
\* has ended, whatever the path (as has multerErrorHandler on the simple route).
C30_OneOutcomePerStage ==
    \A r \in Reqs :
        /\ (req[r].route = "api" /\ req[r].pc # "idle") =>
               /\ req[r].authSent + req[r].nexts = 1
               /\ req[r].authSent = 1 => (req[r].status = 401 /\ req[r].sent = 1)
               /\ (req[r].nexts = 1 /\ req[r].outcome # "LimitFileSize") =>
                      req[r].sent = IF req[r].pc = "done" THEN 1 ELSE 0
        /\ req[r].route = "simple" =>
               req[r].sent = IF req[r].pc = "done" THEN 1 ELSE 0

\* one request was refused by authenticate and one went through
\* handleFileUpload to its storage failure
C30_Witness ==
    \E r1, r2 \in Reqs :
        /\ req[r1].route = "api" /\ req[r1].authSent = 1
        /\ req[r2].route = "api" /\ req[r2].nexts = 1
        /\ req[r2].pc = "done" /\ req[r2].status = 500

====
